---- MODULE Spec2Model ----
(***************************************************************************)
(* A model of wind_rose.py (class WindRose and main).                       *)
(*                                                                         *)
(* Text is modelled as a sequence of one-character strings.  The kanji of  *)
(* the direction table are written with ASCII letters:                     *)
(*     "N" = 北   "E" = 東   "S" = 南   "W" = 西   "C" = 静   "M" = 穏       *)
(* and "x", "y" stand for characters that occur in no direction name       *)
(* ("x" plays the part of 微 in the token 北微北).                          *)
(*                                                                         *)
(* Floating point values are modelled exactly: a wind speed is an integer  *)
(* number of tenths of m/s, a statistic is a fraction <<num, den>>, and an *)
(* angle is an integer number of 1/720 of a full turn (2*pi = 720 units).  *)
(***************************************************************************)
EXTENDS Integers, Sequences, FiniteSets

VARIABLES
    raw,          \* parse_wind_direction: the argument
    parsed,       \* parse_wind_direction: what the call returned or raised
    pc,           \* position of main(): in __init__, in generate(), or ended
    wind_exists,  \* wind.csv is a file
    map_exists,   \* map.png is a file
    wind_file,    \* the rows csv.reader yields from wind.csv
    angle_arg,    \* the --angle argument
    fig_dir,      \* the directory diagrams/ exists
    data_df,      \* self.data_df (None before read_wind has set it)
    angle,        \* self.angle
    map_image,    \* self.map_image
    chart,        \* number of create_lader_chart calls generate() has made
    request,      \* column, months and fname of the latest create_lader_chart call
    values_dict,  \* values_dict of the latest call, as its first loop built it
    angle_list,   \* angle_list of the latest create_lader_chart call
    plotted,      \* the series ax.plot has drawn in the latest call
    temp_exists,  \* diagrams/_temp.png exists
    written,      \* the diagram files saved so far
    error         \* the exception that ended the run, "none" if there is none

parseVars == <<raw, parsed>>
inputVars == <<wind_exists, map_exists, wind_file, angle_arg>>
selfVars == <<fig_dir, data_df, angle, map_image>>
chartVars ==
    <<chart, request, values_dict, angle_list, plotted, temp_exists, written>>
vars == <<raw, parsed, pc, wind_exists, map_exists, wind_file, angle_arg,
          fig_dir, data_df, angle, map_image, chart, request, values_dict,
          angle_list, plotted, temp_exists, written, error>>

----------------------------------------------------------------------------
(* Bounds of the model. *)

\* longest token over the whole alphabet given to parse_wind_direction
MaxLen == 4
\* longest run of non-direction characters put before or after a direction
MaxGarbage == 3
\* most rows of a wind.csv built from RowSet
MaxRows == 3
\* the --angle arguments run from -MaxAngle to MaxAngle
MaxAngle == 180
\* the years of the timestamps of the one-row files
FirstYear == 2023
LastYear == 2024

----------------------------------------------------------------------------
(* WindRose class attributes. *)

directions ==
    << <<"N">>,
       <<"N", "N", "E">>,
       <<"N", "E">>,
       <<"E", "N", "E">>,
       <<"E">>,
       <<"E", "S", "E">>,
       <<"S", "E">>,
       <<"S", "S", "E">>,
       <<"S">>,
       <<"S", "S", "W">>,
       <<"S", "W">>,
       <<"W", "S", "W">>,
       <<"W">>,
       <<"W", "N", "W">>,
       <<"N", "W">>,
       <<"N", "N", "W">>,
       <<"C", "M">> >>

summer_months == <<4, 5, 6, 7, 8, 9, 10, 11>>

winter_months == <<12, 1, 2, 3>>

\* the set of entries of self.directions ("raw in self.directions")
DirectionSet == {directions[k] : k \in 1..Len(directions)}

\* self.direction_to_index[d], for a key d of the dict
direction_to_index(d) ==
    CHOOSE i \in 0..(Len(directions) - 1) : directions[i + 1] = d

----------------------------------------------------------------------------
(* parse_wind_direction *)

\* str.startswith / str.endswith with one prefix or suffix
StartsWith(s, p) == Len(s) >= Len(p) /\ SubSeq(s, 1, Len(p)) = p

EndsWith(s, p) ==
    Len(s) >= Len(p) /\ SubSeq(s, Len(s) - Len(p) + 1, Len(s)) = p

\* what a call returns: a value, or the exception it raised
Returned(v) == [raised |-> "none", value |-> v]

Raised(e) == [raised |-> e, value |-> -1]

\* the loop "raw = raw[:-1]" of the raw_starts branch
RECURSIVE StripEnd(_)
StripEnd(s) ==
    LET r == SubSeq(s, 1, Len(s) - 1)
    IN  IF r \in DirectionSet THEN Returned(r)
        ELSE IF r = <<>> THEN Raised("ValueError")
        ELSE StripEnd(r)

\* StripStart with the slice of the other branch (raw[:-1] for raw[1:])
StripStartWrongSlice(s) == StripEnd(s)

\* the loop "raw = raw[1:]" of the raw_ends branch
RECURSIVE StripStart(_)
StripStart(s) ==
    LET r == SubSeq(s, 2, Len(s))
    IN  IF r \in DirectionSet THEN Returned(r)
        ELSE IF r = <<>> THEN Raised("ValueError")
        ELSE StripStart(r)

\* the final lookup: calm for the empty string, else the dict (KeyError)
LookupDirection(s) ==
    IF s = <<>> THEN Returned(direction_to_index(<<"C", "M">>))
    ELSE IF s \in DirectionSet THEN Returned(direction_to_index(s))
    ELSE Raised("KeyError")

raw_starts_of(s) == s = <<>> \/ \E d \in DirectionSet : StartsWith(s, d)

raw_ends_of(s) == s = <<>> \/ \E d \in DirectionSet : EndsWith(s, d)

parse_wind_direction(s) ==
    LET raw_starts == raw_starts_of(s)
        raw_ends == raw_ends_of(s)
    IN  IF raw_starts # raw_ends
        THEN LET stripped == IF raw_starts THEN StripEnd(s) ELSE StripStart(s)
             IN  IF stripped.raised # "none" THEN stripped
                 ELSE LookupDirection(stripped.value)
        ELSE LookupDirection(s)

----------------------------------------------------------------------------
(* read_wind: one row of wind.csv *)

\* A row as csv.reader yields it: ncols is the number of its fields, ts the
\* text of row[0] (fmt: the text has the shape "%Y/%m/%d %H:%M:%S"; then
\* its numbers), speed the text of row[1] and direction the text of row[3].
Row(n, t, v, d) == [ncols |-> n, ts |-> t, speed |-> v, direction |-> d]

TS(y, mo, d, h, mi, s) ==
    [fmt |-> TRUE, year |-> y, month |-> mo, day |-> d,
     hour |-> h, minute |-> mi, second |-> s]

\* a field that is no timestamp at all (a header cell, an empty field)
NoTS ==
    [fmt |-> FALSE, year |-> 0, month |-> 0, day |-> 0,
     hour |-> 0, minute |-> 0, second |-> 0]

\* the text of row[1]: empty, a decimal number (in tenths), or other text
EmptySpeed == [kind |-> "empty", tenths |-> 0]

NumSpeed(t) == [kind |-> "number", tenths |-> t]

TextSpeed == [kind |-> "text", tenths |-> 0]

IsLeap(y) == (y % 4 = 0 /\ y % 100 # 0) \/ y % 400 = 0

DaysIn(y, mo) ==
    IF mo = 2 THEN (IF IsLeap(y) THEN 29 ELSE 28)
    ELSE IF mo \in {4, 6, 9, 11} THEN 30
    ELSE 31

\* datetime.strptime(row[0].strip(), "%Y/%m/%d %H:%M:%S") succeeds
strptime_ok(t) ==
    /\ t.fmt
    /\ t.year \in 1..9999
    /\ t.month \in 1..12
    /\ t.day \in 1..DaysIn(t.year, t.month)
    /\ t.hour \in 0..23
    /\ t.minute \in 0..59
    /\ t.second \in 0..59

\* dt - timedelta(hours=1) overflows below datetime.min
MinusHourOverflows(t) ==
    t.year = 1 /\ t.month = 1 /\ t.day = 1 /\ t.hour = 0

\* MinusHour without the shift: the logged timestamp is kept
MinusHourDropped(t) == t

\* dt - timedelta(hours=1), for a dt that does not overflow
MinusHour(t) ==
    IF t.hour > 0 THEN [t EXCEPT !.hour = t.hour - 1]
    ELSE IF t.day > 1 THEN [t EXCEPT !.hour = 23, !.day = t.day - 1]
    ELSE IF t.month > 1
    THEN [t EXCEPT !.hour = 23, !.month = t.month - 1,
                   !.day = DaysIn(t.year, t.month - 1)]
    ELSE [t EXCEPT !.hour = 23, !.year = t.year - 1, !.month = 12, !.day = 31]

\* dt.replace(hour=0, minute=0, second=0, microsecond=0)
DayOf(t) == [t EXCEPT !.hour = 0, !.minute = 0, !.second = 0]

\* the body of the loop over the rows: the dict appended to wind_data, or
\* the exception the try block re-raises
ParseRow(row) ==
    IF row.ncols < 1 THEN Raised("IndexError")
    ELSE IF ~strptime_ok(row.ts) THEN Raised("ValueError")
    ELSE IF MinusHourOverflows(row.ts) THEN Raised("OverflowError")
    ELSE IF row.ncols < 2 THEN Raised("IndexError")
    ELSE IF row.speed.kind = "text" THEN Raised("ValueError")
    ELSE IF row.ncols < 4 THEN Raised("IndexError")
    ELSE LET dt == MinusHour(row.ts)
             direction_index == parse_wind_direction(row.direction)
         IN  IF direction_index.raised # "none"
             THEN Raised(direction_index.raised)
             ELSE Returned([datetime |-> dt,
                            day |-> DayOf(dt),
                            month |-> dt.month,
                            wind |-> IF row.speed.kind = "empty" THEN 0
                                     ELSE row.speed.tenths,
                            direction_index |-> direction_index.value])

----------------------------------------------------------------------------
(* read_wind: the aggregation *)

Min(S) == CHOOSE a \in S : \A b \in S : a <= b

Max(S) == CHOOSE a \in S : \A b \in S : a >= b

\* the sum of wind_data[i].wind over the indexes I
RECURSIVE SumWind(_, _)
SumWind(wind_data, I) ==
    IF I = {} THEN 0
    ELSE LET i == Min(I)
         IN  wind_data[i].wind + SumWind(wind_data, I \ {i})

\* the rows of a month
MonthRows(wind_data, m) ==
    {i \in DOMAIN wind_data : wind_data[i].month = m}

\* nhours without the group_by on the month: the number of all rows
NhoursOfAllRows(wind_data, m) == Len(wind_data)

\* counts_df: nhours of a month, the number of rows of that month
nhours(wind_data, m) == Cardinality(MonthRows(wind_data, m))

\* the row of data_df for the group I of rows of month m and sector d, the
\* rows of the month having been joined with its nhours n
GroupStat(wind_data, m, d, I, n) ==
    [month |-> m,
     direction_index |-> d,
     wind_percentage |-> <<Cardinality(I) * 100, n>>,
     wind_mean |-> <<SumWind(wind_data, I), Cardinality(I)>>,
     wind_max |-> <<Max({wind_data[i].wind : i \in I}), 1>>]

\* data_df: one row for each (month, direction_index) group that has rows
Aggregate(wind_data) ==
    UNION { LET rows == MonthRows(wind_data, m)
                n == nhours(wind_data, m)
            IN  { GroupStat(wind_data, m, d,
                            {i \in rows : wind_data[i].direction_index = d}, n) :
                    d \in {wind_data[i].direction_index : i \in rows} } :
            m \in {wind_data[i].month : i \in DOMAIN wind_data} }

\* read_wind with an except clause that drops the row instead of raising
ReadWindSkippingRows(rows) ==
    LET results == [i \in DOMAIN rows |-> ParseRow(rows[i])]
        good == SelectSeq(results, LAMBDA r : r.raised = "none")
    IN  IF good = <<>> THEN Raised("ColumnNotFoundError")
        ELSE Returned(Aggregate([i \in DOMAIN good |-> good[i].value]))

\* read_wind on the rows of the file: data_df, or the exception of the first
\* row that raises; a file without rows gives a frame without a "month"
\* column, on which group_by raises
read_wind(rows) ==
    LET results == [i \in DOMAIN rows |-> ParseRow(rows[i])]
        bad == {i \in DOMAIN rows : results[i].raised # "none"}
    IN  IF bad # {} THEN Raised(results[Min(bad)].raised)
        ELSE IF rows = <<>> THEN Raised("ColumnNotFoundError")
        ELSE Returned(Aggregate([i \in DOMAIN rows |-> results[i].value]))

----------------------------------------------------------------------------
(* __init__: the angle, the map *)

\* the two while loops that bring the angle into [0, 360)
RECURSIVE NormalizeAngle(_)
NormalizeAngle(a) ==
    IF a < 0 THEN NormalizeAngle(a + 360)
    ELSE IF a >= 360 THEN NormalizeAngle(a - 360)
    ELSE a

\* read_map: the 450 x 450 crop of the rotated 640 x 640 crop, pasted on a
\* white 550 x 450 canvas
read_map(a) == [width |-> 550, height |-> 450, rotated |-> a]

----------------------------------------------------------------------------
(* create_lader_chart *)

\* 2.0 * np.pi, in the unit of the angles (1/720 of a turn)
TwoPi == 720

\* (0.25 - (i / 16.0) + (self.angle / 360)) * 2.0 * np.pi
RawAngle(i, a) == 180 - 45 * i + 2 * a

\* x + (2.0 * np.pi) if x < 0 else x
WrapUp(x) == IF x < 0 THEN x + TwoPi ELSE x

\* WrapDown with > for >=
WrapDownStrict(x) == IF x > TwoPi THEN x - TwoPi ELSE x

\* x - (2.0 * np.pi) if x >= 2.0 * np.pi else x
WrapDown(x) == IF x >= TwoPi THEN x - TwoPi ELSE x

\* s[:1]
FirstSlice(s) == IF s = <<>> THEN <<>> ELSE <<s[1]>>

\* angle_list after "angle_list += angle_list[:1]"
AngleList(a) ==
    LET open == [k \in 1..16 |-> WrapDown(WrapUp(RawAngle(k - 1, a)))]
    IN  open \o FirstSlice(open)

\* range(16)
valid_direction_indexes == 0..15

\* sort(by="direction_index"): the rows in a sequence, by insertion
InsertRow(sorted, r) ==
    LET p == Cardinality({k \in DOMAIN sorted :
                 sorted[k].direction_index <= r.direction_index})
    IN  SubSeq(sorted, 1, p) \o <<r>> \o SubSeq(sorted, p + 1, Len(sorted))

RECURSIVE SortRows(_)
SortRows(rows) ==
    IF rows = {} THEN <<>>
    ELSE LET r == CHOOSE q \in rows : TRUE
         IN  InsertRow(SortRows(rows \ {r}), r)

\* select(pl.col(column)).to_series().to_list() of the sorted rows
SortedValues(rows, column) ==
    LET sorted == SortRows(rows)
    IN  [k \in DOMAIN sorted |-> sorted[k][column]]

\* values_dict[month]: select, filter on the month and the 16 sectors, sort
Values(df, column, month) ==
    SortedValues({r \in df : /\ r.month = month
                             /\ r.direction_index \in valid_direction_indexes},
                 column)

\* draw_values after "draw_values += draw_values[:1]"
Closed(values) == values \o FirstSlice(values)

\* ax.plot(angle_list, draw_values) raises unless both have the same length
PlotRaises(angles, draw_values) == Len(angles) # Len(draw_values)

\* the list generate() iterates: the groupings with months, times the columns
all_months == [k \in 1..12 |-> k]

Groupings ==
    SelectSeq(<< [name |-> "year", months |-> all_months],
                 [name |-> "summer", months |-> summer_months],
                 [name |-> "winter", months |-> winter_months] >>,
              LAMBDA g : Len(g.months) # 0)

Columns == <<"wind_percentage", "wind_mean", "wind_max">>

Requests ==
    [k \in 1..(Len(Groupings) * Len(Columns)) |->
        [column |-> Columns[((k - 1) % Len(Columns)) + 1],
         months |-> Groupings[((k - 1) \div Len(Columns)) + 1].months,
         fname |-> <<Columns[((k - 1) % Len(Columns)) + 1],
                     Groupings[((k - 1) \div Len(Columns)) + 1].name>>]]

\* what the file system does to a call that reaches fig.savefig
IOOutcomes ==
    {"ok", "savefig_fails", "savefig_fails_midway", "open_fails", "save_fails"}

----------------------------------------------------------------------------
(* The inputs of a run. *)

Chars == {"N", "E", "S", "W", "C", "M", "x"}

Garbage == {"x", "y"}

SeqsUpTo(S, n) == UNION {[1..k -> S] : k \in 0..n}

\* the arguments of parse_wind_direction: every short text, and every
\* direction with a run of other characters on one side
Tokens ==
    SeqsUpTo(Chars, MaxLen)
    \cup {g \o d : g \in SeqsUpTo(Garbage, MaxGarbage), d \in DirectionSet}
    \cup {d \o g : g \in SeqsUpTo(Garbage, MaxGarbage), d \in DirectionSet}

\* rows of a small wind.csv: well-formed ones (two of them logged in hour 00
\* of the first day of a month), and the ways a row can be wrong
RowSet ==
    { Row(4, TS(2023, 1, 1, 0, 30, 0), NumSpeed(52), <<"N">>),
      Row(4, TS(2023, 1, 1, 1, 0, 0), EmptySpeed, <<>>),
      Row(4, TS(2023, 1, 15, 12, 0, 0), NumSpeed(75), <<"S">>),
      Row(4, TS(2024, 3, 1, 0, 0, 0), NumSpeed(30), <<"N", "N", "E", "x">>),
      Row(4, NoTS, NumSpeed(10), <<"N">>),
      Row(4, TS(2023, 1, 15, 13, 0, 0), TextSpeed, <<"N">>),
      Row(4, TS(2023, 1, 15, 14, 0, 0), NumSpeed(10), <<"x", "N", "x">>),
      Row(4, TS(2023, 1, 15, 15, 0, 0), NumSpeed(10), <<"N", "x", "N">>),
      Row(0, NoTS, EmptySpeed, <<>>) }

SmallFiles == SeqsUpTo(RowSet, MaxRows)

\* one-row files: every hour of every day number 1..31 of the years
OneRowFiles ==
    { << Row(4, TS(y, mo, d, h, 30, 0), NumSpeed(52), <<"N">>) >> :
        y \in FirstYear..LastYear, mo \in 1..12, d \in 1..31, h \in 0..23 }

\* a file in which every sector 0..15 occurs in every month
FullFile ==
    [k \in 1..192 |->
        Row(4, TS(2023, ((k - 1) \div 16) + 1, 15, 12, 0, 0),
            NumSpeed(10 + ((k - 1) % 16)), directions[((k - 1) % 16) + 1])]

CalmRow == Row(4, TS(2023, 6, 15, 13, 0, 0), EmptySpeed, <<>>)

\* the full file, with a calm hour added, and with sector 15 of December
\* missing
BigFiles ==
    {FullFile, Append(FullFile, CalmRow), SubSeq(FullFile, 1, 191)}

SmallAngles == {0, 90}

AngleArgs == (-MaxAngle)..MaxAngle \cup {-1085, -720, -360, 359, 360, 720, 1085}

----------------------------------------------------------------------------
(* The state before main() starts. *)

NoError == [type |-> "none", at |-> "none"]

Pending == [raised |-> "pending", value |-> -1]

\* no call of parse_wind_direction is followed
ParseIdle == raw = <<>> /\ parsed = Returned(-1)

\* no run of main() is followed
RunIdle ==
    /\ pc = "idle"
    /\ wind_exists = FALSE /\ map_exists = FALSE
    /\ wind_file = <<>> /\ angle_arg = 0

Fresh ==
    /\ fig_dir = FALSE
    /\ data_df = {}
    /\ angle = 0
    /\ map_image = [width |-> 0, height |-> 0, rotated |-> 0]
    /\ chart = 0
    /\ request = [column |-> "none", months |-> <<>>, fname |-> <<>>]
    /\ values_dict = <<>>
    /\ angle_list = <<>>
    /\ plotted = <<>>
    /\ temp_exists = FALSE
    /\ written = {}
    /\ error = NoError

InitParse ==
    /\ raw \in Tokens
    /\ parsed = Pending
    /\ RunIdle
    /\ Fresh

Init ==
    /\ ParseIdle
    /\ pc = "mkdir"
    /\ Fresh
    /\ \/ /\ wind_exists = FALSE /\ wind_file = <<>>
          /\ map_exists \in BOOLEAN
          /\ angle_arg \in SmallAngles
       \/ /\ wind_exists = TRUE /\ wind_file \in SmallFiles
          /\ map_exists \in BOOLEAN
          /\ angle_arg \in SmallAngles
       \/ /\ wind_exists = TRUE /\ wind_file \in OneRowFiles
          /\ map_exists = TRUE
          /\ angle_arg = 0
       \/ /\ wind_exists = TRUE /\ wind_file \in BigFiles
          /\ map_exists = TRUE
          /\ angle_arg \in SmallAngles
       \/ /\ wind_exists = TRUE /\ wind_file = FullFile
          /\ map_exists = TRUE
          /\ angle_arg \in AngleArgs

----------------------------------------------------------------------------
(* The operations. *)

\* one call of parse_wind_direction
Parse ==
    /\ parsed = Pending
    /\ parsed' = parse_wind_direction(raw)
    /\ UNCHANGED <<raw, pc, inputVars, selfVars, chartVars, error>>

\* __init__: create the figure directory
MkFigDir ==
    /\ pc = "mkdir"
    /\ fig_dir' = TRUE
    /\ pc' = "read_wind"
    /\ UNCHANGED <<parseVars, inputVars, data_df, angle, map_image,
                   chartVars, error>>

\* __init__: check wind.csv and read it
InitReadWind ==
    /\ pc = "read_wind"
    /\ IF ~wind_exists
       THEN /\ error' = [type |-> "FileNotFoundError", at |-> "wind_path"]
            /\ pc' = "failed"
            /\ UNCHANGED data_df
       ELSE LET r == read_wind(wind_file)
            IN  IF r.raised # "none"
                THEN /\ error' = [type |-> r.raised, at |-> "read_wind"]
                     /\ pc' = "failed"
                     /\ UNCHANGED data_df
                ELSE /\ data_df' = r.value
                     /\ pc' = "angle"
                     /\ UNCHANGED error
    /\ UNCHANGED <<parseVars, inputVars, fig_dir, angle, map_image, chartVars>>

\* __init__: set the angle
InitSetAngle ==
    /\ pc = "angle"
    /\ angle' = NormalizeAngle(angle_arg)
    /\ pc' = "read_map"
    /\ UNCHANGED <<parseVars, inputVars, fig_dir, data_df, map_image,
                   chartVars, error>>

\* __init__: check map.png and read it
InitReadMap ==
    /\ pc = "read_map"
    /\ IF ~map_exists
       THEN /\ error' = [type |-> "FileNotFoundError", at |-> "map_path"]
            /\ pc' = "failed"
            /\ UNCHANGED map_image
       ELSE /\ map_image' = read_map(angle)
            /\ pc' = "generate"
            /\ UNCHANGED error
    /\ UNCHANGED <<parseVars, inputVars, fig_dir, data_df, angle, chartVars>>

\* the months whose series ax.plot draws: all of them, or those before the
\* first one whose series does not have the length of angle_list
RECURSIVE PlotLoop(_, _, _)
PlotLoop(months, values, angles) ==
    IF months = <<>> THEN <<>>
    ELSE LET draw_values == Closed(values[Head(months)])
         IN  IF PlotRaises(angles, draw_values) THEN <<>>
             ELSE <<[month |-> Head(months), series |-> draw_values]>>
                  \o PlotLoop(Tail(months), values, angles)

\* generate(): the next call of create_lader_chart
CreateLaderChart ==
    /\ pc = "generate"
    /\ chart < Len(Requests)
    /\ LET req == Requests[chart + 1]
           values == [m \in {req.months[k] : k \in DOMAIN req.months} |->
                         Values(data_df, req.column, m)]
           angles == AngleList(angle)
           drawn == PlotLoop(req.months, values, angles)
       IN  /\ request' = req
           /\ values_dict' = values
           /\ angle_list' = angles
           /\ plotted' = drawn
           /\ IF Len(drawn) < Len(req.months)
              THEN /\ error' = [type |-> "ValueError", at |-> "ax.plot"]
                   /\ pc' = "failed"
                   /\ UNCHANGED <<chart, temp_exists, written>>
              ELSE \E io \in IOOutcomes :
                     IF io = "ok"
                     THEN /\ written' = written \cup {req.fname}
                          /\ temp_exists' = FALSE
                          /\ chart' = chart + 1
                          /\ UNCHANGED <<pc, error>>
                     ELSE /\ error' = [type |-> "OSError", at |-> io]
                          /\ pc' = "failed"
                          /\ temp_exists' =
                                 (temp_exists \/ io # "savefig_fails")
                          /\ UNCHANGED <<chart, written>>
    /\ UNCHANGED <<parseVars, inputVars, selfVars>>

\* generate() and main() return
GenerateReturn ==
    /\ pc = "generate"
    /\ chart = Len(Requests)
    /\ pc' = "done"
    /\ UNCHANGED <<parseVars, inputVars, selfVars, chartVars, error>>

NextParse == Parse

Next ==
    \/ MkFigDir
    \/ InitReadWind
    \/ InitSetAngle
    \/ InitReadMap
    \/ CreateLaderChart
    \/ GenerateReturn

SpecParse == InitParse /\ [][NextParse]_vars

Spec == Init /\ [][Next]_vars

----------------------------------------------------------------------------
(* Properties of parse_wind_direction, under SpecParse. *)

GarbageRuns == SeqsUpTo(Garbage, MaxGarbage) \ {<<>>}

\* C1: a direction followed by a trailing run of other characters is parsed
\* as that direction also when the run itself ends with a direction:
\* parse_wind_direction("北微北") returns 0.
C1_TrailingRunEndingInDirection ==
    (raw = <<"N", "x", "N">> /\ parsed # Pending) => parsed = Returned(0)

\* C2: for every direction d and every run g of 1 to MaxGarbage characters
\* that occur in no direction, g + d and d + g are both parsed as the index
\* of d.
C2_OneSidedGarbageStripped ==
    parsed # Pending =>
        \A d \in DirectionSet, g \in GarbageRuns :
            (raw = g \o d \/ raw = d \o g)
                => parsed = Returned(direction_to_index(d))

C2_Witness ==
    \/ raw = <<"x", "y", "x", "N", "N", "E">> /\ parsed = Returned(1)
    \/ raw = <<"W", "S", "W", "y", "x">> /\ parsed = Returned(11)

\* C3: a non-empty text that neither starts nor ends with a direction makes
\* parse_wind_direction raise the ValueError "Invalid direction" of the
\* stripping loops.
C3_DirtyOnBothSidesInvalidDirection ==
    ( /\ parsed # Pending
      /\ raw # <<>>
      /\ ~ \E d \in DirectionSet : StartsWith(raw, d)
      /\ ~ \E d \in DirectionSet : EndsWith(raw, d) )
        => parsed = Raised("ValueError")

----------------------------------------------------------------------------
(* Properties of a run of main(), under Spec. *)

\* C4: when an input file is missing, __init__ raises before any processing:
\* the wind table has not been read and aggregated when FileNotFoundError is
\* raised, also when it is raised for the map image.
C4_MissingFileBeforeProcessing ==
    error.type = "FileNotFoundError" => data_df = {}

\* C5: diagrams/_temp.png does not exist whenever create_lader_chart has
\* returned or raised.
C5_TempRemovedOnEveryExit ==
    request.column # "none" => ~temp_exists

\* C6: for every requested month create_lader_chart obtains 16 values, the
\* value at position i being the statistic of sector i, and the closed series
\* it draws has as many points as angle_list.
C6_SixteenValuesPerMonth ==
    request.column # "none" =>
        \A k \in DOMAIN request.months :
            LET m == request.months[k]
            IN  /\ Len(values_dict[m]) = 16
                /\ \A r \in data_df :
                       (r.month = m /\ r.direction_index \in 0..15)
                           => values_dict[m][r.direction_index + 1]
                                  = r[request.column]
                /\ k \in DOMAIN plotted
                /\ plotted[k].month = m
                /\ Len(plotted[k].series) = Len(angle_list)

\* the sum of the numerators of the percentages of a set of rows of data_df
RECURSIVE SumNumerators(_)
SumNumerators(rows) ==
    IF rows = {} THEN 0
    ELSE LET r == CHOOSE q \in rows : TRUE
         IN  r.wind_percentage[1] + SumNumerators(rows \ {r})

\* C7: when read_wind has returned (pc = "angle"; data_df is not assigned
\* again), for every month of the input the percentages of the rows of that
\* month sum to 100: they have one denominator, the hour count of the month,
\* and their numerators sum to 100 times it.
C7_PercentagesSumTo100 ==
    pc = "angle" =>
        \A i \in DOMAIN wind_file :
            LET m == ParseRow(wind_file[i]).value.month
                rows == {r \in data_df : r.month = m}
            IN  /\ rows # {}
                /\ \E r \in rows :
                    /\ \A q \in rows :
                           q.wind_percentage[2] = r.wind_percentage[2]
                    /\ SumNumerators(rows) = 100 * r.wind_percentage[2]

C7_Witness ==
    /\ pc = "angle"
    /\ \E r, q \in data_df :
           r.month = q.month /\ r.direction_index # q.direction_index
    /\ \E r, q \in data_df : r.month # q.month

\* the month a row is counted in: the month before the logged one for a row
\* logged in hour 00 of the first day of a month, else the logged month
CountedMonth(t) ==
    IF t.day = 1 /\ t.hour = 0
    THEN (IF t.month = 1 THEN 12 ELSE t.month - 1)
    ELSE t.month

\* C8: every row is counted in the month of its timestamp minus one hour:
\* when read_wind has returned (pc = "angle"), the hour count of a month in
\* data_df is the number of rows of the file whose CountedMonth it is, and
\* every row of the file has the data_df row of its CountedMonth and sector.
C8_CountedInMonthOfShiftedTime ==
    pc = "angle" =>
        /\ \A r \in data_df :
               r.wind_percentage[2] =
                   Cardinality({i \in DOMAIN wind_file :
                                   CountedMonth(wind_file[i].ts) = r.month})
        /\ \A i \in DOMAIN wind_file :
               \E r \in data_df :
                   /\ r.month = CountedMonth(wind_file[i].ts)
                   /\ r.direction_index =
                          parse_wind_direction(wind_file[i].direction).value

C8_Witness ==
    /\ pc = "angle"
    /\ wind_file =
           << Row(4, TS(2023, 1, 1, 0, 30, 0), NumSpeed(52), <<"N">>) >>
    /\ data_df = {[month |-> 12, direction_index |-> 0,
                   wind_percentage |-> <<100, 1>>,
                   wind_mean |-> <<52, 1>>, wind_max |-> <<52, 1>>]}

\* C9: for every sector i in 0..15 and every rotation in [0, 360), the angle
\* create_lader_chart computes lies in [0, 2*pi) and is the angle of sector i
\* at rotation 0 plus rotation/360 * 2*pi, modulo 2*pi.
C9_AnglesShiftWithRotation ==
    angle_list # <<>> =>
        /\ angle \in 0..359
        /\ \A i \in 0..15 :
               /\ angle_list[i + 1] \in 0..(TwoPi - 1)
               /\ (angle_list[i + 1]
                       - (AngleList(0)[i + 1] + 2 * angle)) % TwoPi = 0

C9_Witness ==
    /\ angle_arg = -90
    /\ angle = 270
    /\ Len(angle_list) = 17
    /\ angle_list[1] = 0
    /\ angle_list[16] = 45

\* a row that read_wind cannot take: its timestamp or its speed does not
\* parse, or its direction is none
BadRow(row) ==
    \/ ~strptime_ok(row.ts)
    \/ row.speed.kind = "text"
    \/ parse_wind_direction(row.direction).raised # "none"

\* C10: a run with a missing input file, a malformed row or an invalid
\* direction never enters generate() and writes no diagram file; what ends it
\* is raised in __init__.
C10_NoDiagramOnBadInput ==
    ( \/ ~wind_exists
      \/ ~map_exists
      \/ \E i \in DOMAIN wind_file : BadRow(wind_file[i]) )
        => /\ written = {}
           /\ request.column = "none"
           /\ pc \notin {"generate", "done"}
           /\ pc = "failed" =>
                  error.at \in {"wind_path", "read_wind", "map_path"}

C10_Witness ==
    /\ pc = "failed"
    /\ map_exists
    /\ error = [type |-> "ValueError", at |-> "read_wind"]
    /\ \E i \in DOMAIN wind_file : wind_file[i].speed.kind = "text"
    /\ written = {}

====
